---- MODULE Spec2Model ----
(***************************************************************************)
(* A model of src/ipsa_sched.c: the start-up sequence ipsa_sched(), the    *)
(* four periodic tasks Task1..Task4, the software-timer callback           *)
(* prvQueueSendTimerCallback() and the function binarySearch().            *)
(*                                                                         *)
(* The kernel primitives the file calls (xQueueCreate, xQueueSend,         *)
(* xQueueReceive, xTimerCreate, xTimerStart, xTaskCreate, vTaskDelayUntil, *)
(* vTaskStartScheduler, the tick interrupt and the timer-service task) are *)
(* not part of src/: they are modelled from sections 3 to 5 of spec.md.    *)
(***************************************************************************)
EXTENDS Integers, Sequences, FiniteSets, TLC

(***************************************************************************)
(* Bounds of the model.                                                    *)
(***************************************************************************)
\* The tick count stops advancing at MaxTick.
MaxTick == 10000
\* At most MaxLag ticks elapse while some context is Ready or Running.
MaxLag == 1
\* binarySearch is run on every sorted array of at most MaxLen elements ...
MaxLen == 3
\* ... whose elements are drawn from 0 .. MaxVal.
MaxVal == 3
\* The queue environment performs at most MaxOps sends and receives.
MaxOps == 10
\* An observation window opens at a tick below MaxWindowStart.
MaxWindowStart == 3

(***************************************************************************)
(* Program constants.                                                      *)
(***************************************************************************)
tskIDLE_PRIORITY == 0
configTICK_RATE_HZ == 1000

pdMS_TO_TICKS(ms) == (ms * configTICK_RATE_HZ) \div 1000

YOUR_TASK1_PRIORITY == tskIDLE_PRIORITY + 1
YOUR_TASK2_PRIORITY == tskIDLE_PRIORITY + 2
YOUR_TASK3_PRIORITY == tskIDLE_PRIORITY + 3
\* Mutant: Task4 created above the timer-service task.
YOUR_TASK4_PRIORITY_7 == tskIDLE_PRIORITY + 7
YOUR_TASK4_PRIORITY == tskIDLE_PRIORITY + 4

TASK1_FREQUENCY == pdMS_TO_TICKS(4000)
TASK2_FREQUENCY == pdMS_TO_TICKS(200)
TASK3_FREQUENCY == pdMS_TO_TICKS(3000)
TASK4_FREQUENCY == pdMS_TO_TICKS(800)

\* Mutant: a queue one element longer.
mainQUEUE_LENGTH_5 == 4 + 1
mainQUEUE_LENGTH == 4
mainVALUE_SENT_FROM_TASK == 100
\* Mutant: the callback sends the task's value.
mainVALUE_SENT_FROM_TIMER_100 == mainVALUE_SENT_FROM_TASK
mainVALUE_SENT_FROM_TIMER == 200
xTimerPeriod == 2000
\* Mutant: a one-shot timer, pdFALSE.
uxAutoReloadOff == FALSE
\* xTimerCreate's uxAutoReload argument, pdTRUE (line 160).
uxAutoReload == TRUE
\* The priority of the timer-service task, above every application task.
configTIMER_TASK_PRIORITY == 6

Tasks == {"Task1", "Task2", "Task3", "Task4"}
TmrSvc == "TmrSvc"
Contexts == Tasks \cup {TmrSvc}

\* Mutant: the priorities of Task1 and Task4 exchanged.
uxPrioritySwapped(c) ==
    CASE c = "Task1" -> YOUR_TASK4_PRIORITY
      [] c = "Task2" -> YOUR_TASK2_PRIORITY
      [] c = "Task3" -> YOUR_TASK3_PRIORITY
      [] c = "Task4" -> YOUR_TASK1_PRIORITY
      [] c = TmrSvc -> configTIMER_TASK_PRIORITY

\* xTaskCreate's uxPriority argument (lines 168-171).
uxPriority(c) ==
    CASE c = "Task1" -> YOUR_TASK1_PRIORITY
      [] c = "Task2" -> YOUR_TASK2_PRIORITY
      [] c = "Task3" -> YOUR_TASK3_PRIORITY
      [] c = "Task4" -> YOUR_TASK4_PRIORITY
      [] c = TmrSvc -> configTIMER_TASK_PRIORITY

\* Each task's xBlockTime.
xBlockTime(t) ==
    CASE t = "Task1" -> TASK1_FREQUENCY
      [] t = "Task2" -> TASK2_FREQUENCY
      [] t = "Task3" -> TASK3_FREQUENCY
      [] t = "Task4" -> TASK4_FREQUENCY

\* Task4's array, elements[50], and its target.
elementsInit ==
    << 2, 4, 7, 12, 15, 20, 22, 25, 28, 30,
       32, 35, 40, 42, 45, 48, 50, 55, 60, 62,
       65, 70, 75, 80, 82, 85, 88, 90, 92, 95,
       100, 105, 110, 112, 115, 118, 120, 122, 125, 130,
       135, 140, 145, 150, 155, 160, 165, 170, 175, 180 >>
elementsSize == 50
targetElement == 15

\* A C array is indexed from 0.
elements == [i \in 0 .. (elementsSize - 1) |-> elementsInit[i + 1]]

VARIABLES
    \* binarySearch: its arguments, its locals, its position and its result
    arr, size, target, left, right, mid, bsPc, result, retDefined,
    \* ipsa_sched(): its position, and the two file-scope handles
    pc, xQueue, xTimer,
    \* the queue: its capacity, its elements (head first), the value the
    \* last xQueueSend returned
    qCapacity, queue, sendRet,
    \* the software timer: started or not, its next expiry, its first
    \* expiry, the number of expiries processed
    tmrActive, nextExpiry, initialStart, fires,
    \* every context (the four tasks and the timer-service task): its
    \* scheduling state and its position in its function
    cstate, cpc,
    \* every task: its local xNextWakeTime, the tick count it read when it
    \* first ran, the number of vTaskDelayUntil calls it has made, the tick
    \* of its last release
    xNextWakeTime, t0, cycles, lastRelease,
    \* the tick count, and the ticks elapsed in the current busy period
    now, lag,
    \* the queue environment: the sends and receives made, with results
    opLog,
    \* the observation window: its first tick, and each task's releases in it
    winStart, winCount

searchVars == << arr, size, target, left, right, mid, bsPc, result, retDefined >>
mainVars == << pc, xQueue, xTimer >>
queueVars == << qCapacity, queue, sendRet >>
timerVars == << tmrActive, nextExpiry, initialStart, fires >>
taskVars == << xNextWakeTime, t0, cycles, lastRelease >>
ctxVars == << cstate, cpc >>
clockVars == << now, lag >>
winVars == << winStart, winCount >>
progVars == << mainVars, queueVars, timerVars, taskVars, ctxVars, clockVars >>
vars == << searchVars, progVars, opLog, winVars >>

(***************************************************************************)
(* binarySearch (lines 240-255).                                           *)
(***************************************************************************)
\* The values a caller may read after control falls off the end of the
\* function without a return statement: the value is undefined.
UndefinedInt == {-1, 0, 1}

IsSorted(a, n) == \A i \in 0 .. (n - 2) : a[i] <= a[i + 1]

SortedArrays(n) == {a \in [0 .. (n - 1) -> 0 .. MaxVal] : IsSorted(a, n)}

\* int left = 0; int right = size - 1;
BsEnter ==
    /\ bsPc = "entry"
    /\ left' = 0
    /\ right' = size - 1
    /\ bsPc' = "loop"
    /\ UNCHANGED << arr, size, target, mid, result, retDefined >>
    /\ UNCHANGED << progVars, opLog, winVars >>

\* The value of the return statement on the found path (line 248).
FoundReturnValue(m) == 0

\* Mutant: left = mid instead of left = mid + 1.
BsIterNoProgress ==
    /\ bsPc = "loop"
    /\ left <= right
    /\ LET m == left + (right - left) \div 2
       IN  /\ mid' = m
           /\ IF arr[m] = target
              THEN /\ result' = FoundReturnValue(m)
                   /\ retDefined' = TRUE
                   /\ bsPc' = "returned"
                   /\ UNCHANGED << left, right >>
              ELSE IF arr[m] < target
              THEN /\ left' = m
                   /\ UNCHANGED << right, result, retDefined, bsPc >>
              ELSE /\ right' = m - 1
                   /\ UNCHANGED << left, result, retDefined, bsPc >>
    /\ UNCHANGED << arr, size, target >>
    /\ UNCHANGED << progVars, opLog, winVars >>

\* One iteration of while (left <= right).
BsIter ==
    /\ bsPc = "loop"
    /\ left <= right
    /\ LET m == left + (right - left) \div 2
       IN  /\ mid' = m
           /\ IF arr[m] = target
              THEN /\ result' = FoundReturnValue(m)
                   /\ retDefined' = TRUE
                   /\ bsPc' = "returned"
                   /\ UNCHANGED << left, right >>
              ELSE IF arr[m] < target
              THEN /\ left' = m + 1
                   /\ UNCHANGED << right, result, retDefined, bsPc >>
              ELSE /\ right' = m - 1
                   /\ UNCHANGED << left, result, retDefined, bsPc >>
    /\ UNCHANGED << arr, size, target >>
    /\ UNCHANGED << progVars, opLog, winVars >>

\* The loop ends with left > right and control reaches the closing brace of
\* a function returning int: no value is returned.
BsFallOff ==
    /\ bsPc = "loop"
    /\ left > right
    /\ bsPc' = "returned"
    /\ retDefined' = FALSE
    /\ result' \in UndefinedInt
    /\ UNCHANGED << arr, size, target, left, right, mid >>
    /\ UNCHANGED << progVars, opLog, winVars >>

(***************************************************************************)
(* The kernel primitives, modelled from spec.md.                           *)
(***************************************************************************)
NULL == "NULL"
pdPASS == "pdPASS"
errQUEUE_FULL == "errQUEUE_FULL"
errQUEUE_EMPTY == "errQUEUE_EMPTY"

\* send(value, 0) of spec.md 4.2: with no room the call fails at once and
\* the queue is left as it was; otherwise the value goes to the tail.
xQueueSend(q, cap, v) ==
    IF Len(q) < cap
    THEN [q |-> Append(q, v), ret |-> pdPASS]
    ELSE [q |-> q, ret |-> errQUEUE_FULL]

\* Mutant: a receive that takes the newest element.
xQueueReceiveNewest(q) ==
    IF Len(q) > 0
    THEN [q |-> SubSeq(q, 1, Len(q) - 1), v |-> q[Len(q)], ret |-> pdPASS]
    ELSE [q |-> q, v |-> 0, ret |-> errQUEUE_EMPTY]

\* receive(0) of spec.md 4.2: with no element the call fails at once;
\* otherwise the head is taken.
xQueueReceive(q) ==
    IF Len(q) > 0
    THEN [q |-> Tail(q), v |-> Head(q), ret |-> pdPASS]
    ELSE [q |-> q, v |-> 0, ret |-> errQUEUE_EMPTY]

\* The reload of an auto-reload timer (spec.md 4.3): the next expiry is
\* computed from the expiry just reached, not from the tick count.
TimerReload(expiry, tick) == expiry + xTimerPeriod

\* The wake time vTaskDelayUntil computes: the previous wake time plus the
\* increment (spec.md, glossary: delay-until).
xTimeToWake(prev, inc) == prev + inc

AllBlocked(st) == \A c \in Contexts : st[c] \in {"Blocked", "NotCreated"}

\* vTaskDelayUntil(&xNextWakeTime, xBlockTime) called by task t with
\* *pxPreviousWakeTime = prev: the wake time is stored back, and the task
\* blocks unless the wake time has already been reached.
DelayUntilFrom(t, prev) ==
    LET wake == xTimeToWake(prev, xBlockTime(t))
        st == [cstate EXCEPT ![t] = IF wake > now THEN "Blocked" ELSE "Running"]
    IN  /\ xNextWakeTime' = [xNextWakeTime EXCEPT ![t] = wake]
        /\ cycles' = [cycles EXCEPT ![t] = @ + 1]
        /\ cstate' = st
        /\ cpc' = [cpc EXCEPT ![t] = "body"]
        /\ lag' = IF AllBlocked(st) THEN 0 ELSE lag

\* The contexts a tick to tick count n releases: the blocked tasks whose
\* wake time is reached, and the timer service when the timer expires.
Released(n) ==
    {t \in Tasks : cstate[t] = "Blocked" /\ xNextWakeTime[t] <= n}
    \cup {c \in {TmrSvc} : cstate[c] = "Blocked" /\ tmrActive /\ nextExpiry <= n}

\* The tick interrupt: the tick count advances by one, the contexts now due
\* become Ready, and a running context of lower priority than one of them
\* is preempted.
Tick ==
    /\ pc = "scheduler"
    /\ now < MaxTick
    /\ AllBlocked(cstate) \/ lag < MaxLag
    /\ now' = now + 1
    /\ LET rel == Released(now + 1)
       IN  /\ cstate' = [c \in Contexts |->
                 IF c \in rel THEN "Ready"
                 ELSE IF /\ cstate[c] = "Running"
                         /\ \E h \in rel : uxPriority(h) > uxPriority(c)
                      THEN "Ready"
                      ELSE cstate[c]]
           /\ lastRelease' = [t \in Tasks |->
                 IF t \in rel THEN now + 1 ELSE lastRelease[t]]
           /\ winCount' = [t \in Tasks |->
                 IF t \in rel /\ winStart >= 0 /\ now + 1 > winStart
                 THEN winCount[t] + 1
                 ELSE winCount[t]]
    /\ lag' = IF AllBlocked(cstate) THEN 0 ELSE lag + 1
    /\ UNCHANGED << mainVars, queueVars, timerVars, xNextWakeTime, t0, cycles, cpc >>
    /\ UNCHANGED << searchVars, opLog, winStart >>

\* Mutant: a context is dispatched while another one is Running.
DispatchWhileRunning(c) ==
    /\ pc = "scheduler"
    /\ cstate[c] = "Ready"
    /\ \A d \in Contexts : cstate[d] = "Ready" => uxPriority(d) <= uxPriority(c)
    /\ cstate' = [cstate EXCEPT ![c] = "Running"]
    /\ UNCHANGED << mainVars, queueVars, timerVars, taskVars, cpc, clockVars >>
    /\ UNCHANGED << searchVars, opLog, winVars >>

\* The scheduler gives the processor to the Ready context of the highest
\* priority when no context is Running.
Dispatch(c) ==
    /\ pc = "scheduler"
    /\ cstate[c] = "Ready"
    /\ \A d \in Contexts : cstate[d] # "Running"
    /\ \A d \in Contexts : cstate[d] = "Ready" => uxPriority(d) <= uxPriority(c)
    /\ cstate' = [cstate EXCEPT ![c] = "Running"]
    /\ UNCHANGED << mainVars, queueVars, timerVars, taskVars, cpc, clockVars >>
    /\ UNCHANGED << searchVars, opLog, winVars >>

\* The timer service finds the timer expired: an auto-reload timer gets its
\* next expiry before the callback is called.
TimerExpire ==
    /\ cstate[TmrSvc] = "Running"
    /\ cpc[TmrSvc] = "wait"
    /\ tmrActive
    /\ nextExpiry <= now
    /\ fires' = fires + 1
    /\ IF uxAutoReload
       THEN /\ nextExpiry' = TimerReload(nextExpiry, now)
            /\ UNCHANGED tmrActive
       ELSE /\ tmrActive' = FALSE
            /\ UNCHANGED nextExpiry
    /\ cpc' = [cpc EXCEPT ![TmrSvc] = "callback"]
    /\ UNCHANGED << mainVars, queueVars, initialStart, taskVars, cstate, clockVars >>
    /\ UNCHANGED << searchVars, opLog, winVars >>

(***************************************************************************)
(* ipsa_sched() (lines 146-185).                                           *)
(***************************************************************************)
\* Mutant: the test of line 153 left out.
QueueCreatedAlways(h) == TRUE

\* if (xQueue != NULL), line 153.
QueueCreated(h) == h # NULL

\* Mutant: the test of line 162 left out.
TimerCreatedAlways(h) == TRUE

\* if (xTimer != NULL), line 162.
TimerCreated(h) == h # NULL

\* xQueue = xQueueCreate(mainQUEUE_LENGTH, sizeof(uint32_t)) and the test of
\* line 153: with no queue, control goes to the for (;;) of line 182.
CreateQueue ==
    /\ pc = "createQueue"
    /\ \E h \in {"Queue", NULL} :
          /\ xQueue' = h
          /\ qCapacity' = IF h = NULL THEN 0 ELSE mainQUEUE_LENGTH
          /\ pc' = IF QueueCreated(h) THEN "createTimer" ELSE "idle"
    /\ UNCHANGED << xTimer, queue, sendRet, timerVars, taskVars, ctxVars, clockVars >>
    /\ UNCHANGED << searchVars, opLog, winVars >>

\* xTimer = xTimerCreate(...) and, when it is not NULL, xTimerStart(xTimer, 0)
\* (lines 160-165): the first expiry is one period after the tick count.
CreateTimer ==
    /\ pc = "createTimer"
    /\ \E h \in {"Timer", NULL} :
          /\ xTimer' = h
          /\ IF TimerCreated(h)
             THEN /\ tmrActive' = TRUE
                  /\ nextExpiry' = now + xTimerPeriod
                  /\ initialStart' = now + xTimerPeriod
             ELSE UNCHANGED << tmrActive, nextExpiry, initialStart >>
    /\ pc' = "createTasks"
    /\ UNCHANGED << xQueue, queueVars, fires, taskVars, ctxVars, clockVars >>
    /\ UNCHANGED << searchVars, opLog, winVars >>

\* The four xTaskCreate calls (lines 168-171): each task is created Ready.
CreateTasks ==
    /\ pc = "createTasks"
    /\ cstate' = [c \in Contexts |-> IF c \in Tasks THEN "Ready" ELSE cstate[c]]
    /\ pc' = "startScheduler"
    /\ UNCHANGED << xQueue, xTimer, queueVars, timerVars, taskVars, cpc, clockVars >>
    /\ UNCHANGED << searchVars, opLog, winVars >>

\* vTaskStartScheduler() (line 174): it creates the timer-service task and
\* does not return; with no memory for that task it returns, and control
\* reaches the for (;;) of line 182.
StartScheduler ==
    /\ pc = "startScheduler"
    /\ \/ /\ pc' = "scheduler"
          /\ cstate' = [cstate EXCEPT ![TmrSvc] = "Blocked"]
          /\ cpc' = [cpc EXCEPT ![TmrSvc] = "wait"]
       \/ /\ pc' = "idle"
          /\ UNCHANGED << cstate, cpc >>
    /\ UNCHANGED << xQueue, xTimer, queueVars, timerVars, taskVars, clockVars >>
    /\ UNCHANGED << searchVars, opLog, winVars >>

(***************************************************************************)
(* Task1 .. Task4 (lines 187-280).                                         *)
(***************************************************************************)
\* A task's first run: xNextWakeTime = xTaskGetTickCount(), then the first
\* vTaskDelayUntil of its loop.
TaskEntry(t) ==
    /\ cstate[t] = "Running"
    /\ cpc[t] = "start"
    /\ t0' = [t0 EXCEPT ![t] = now]
    /\ DelayUntilFrom(t, now)
    /\ UNCHANGED << mainVars, queueVars, timerVars, lastRelease, now >>
    /\ UNCHANGED << searchVars, opLog, winVars >>

\* Mutant: the loop reads the tick count again before each delay, as
\* xNextWakeTime = xTaskGetTickCount() inside the for (;;) would.
TaskBodyFromNow(t) ==
    /\ cstate[t] = "Running"
    /\ cpc[t] = "body"
    /\ DelayUntilFrom(t, now)
    /\ UNCHANGED << mainVars, queueVars, timerVars, t0, lastRelease, now >>
    /\ UNCHANGED << searchVars, opLog, winVars >>

\* Mutant: a loop without its vTaskDelayUntil: the task never blocks again.
TaskBodyNoDelay(t) ==
    /\ cstate[t] = "Running"
    /\ cpc[t] = "body"
    /\ UNCHANGED << cstate, cpc, xNextWakeTime, cycles, lag >>
    /\ UNCHANGED << mainVars, queueVars, timerVars, t0, lastRelease, now >>
    /\ UNCHANGED << searchVars, opLog, winVars >>

\* A task's loop after a wake-up: the body (a printf; Task2's conversion,
\* Task3's product and Task4's binarySearch, whose results are dropped),
\* then vTaskDelayUntil(&xNextWakeTime, xBlockTime) again.
TaskBody(t) ==
    /\ cstate[t] = "Running"
    /\ cpc[t] = "body"
    /\ DelayUntilFrom(t, xNextWakeTime[t])
    /\ UNCHANGED << mainVars, queueVars, timerVars, t0, lastRelease, now >>
    /\ UNCHANGED << searchVars, opLog, winVars >>

(***************************************************************************)
(* prvQueueSendTimerCallback (lines 285-301).                              *)
(***************************************************************************)
\* Mutant: the callback sends with a block time of portMAX_DELAY, so that
\* on a full queue the timer service blocks inside xQueueSend.
prvQueueSendTimerCallbackBlocking ==
    /\ cstate[TmrSvc] = "Running"
    /\ cpc[TmrSvc] = "callback"
    /\ IF Len(queue) < qCapacity
       THEN LET st == [cstate EXCEPT ![TmrSvc] =
                         IF tmrActive /\ nextExpiry <= now THEN "Running" ELSE "Blocked"]
            IN  /\ queue' = Append(queue, mainVALUE_SENT_FROM_TIMER)
                /\ sendRet' = pdPASS
                /\ cstate' = st
                /\ lag' = IF AllBlocked(st) THEN 0 ELSE lag
                /\ cpc' = [cpc EXCEPT ![TmrSvc] = "wait"]
       ELSE LET st == [cstate EXCEPT ![TmrSvc] = "Blocked"]
            IN  /\ UNCHANGED << queue, sendRet >>
                /\ cstate' = st
                /\ lag' = IF AllBlocked(st) THEN 0 ELSE lag
                /\ cpc' = [cpc EXCEPT ![TmrSvc] = "sending"]
    /\ UNCHANGED << mainVars, qCapacity, timerVars, taskVars, now >>
    /\ UNCHANGED << searchVars, opLog, winVars >>

\* Mutant: the callback overwrites the newest element of a full queue.
prvQueueSendTimerCallbackOverwrite ==
    /\ cstate[TmrSvc] = "Running"
    /\ cpc[TmrSvc] = "callback"
    /\ LET st == [cstate EXCEPT ![TmrSvc] =
                     IF tmrActive /\ nextExpiry <= now THEN "Running" ELSE "Blocked"]
       IN  /\ queue' = IF Len(queue) < qCapacity
                       THEN Append(queue, mainVALUE_SENT_FROM_TIMER)
                       ELSE [queue EXCEPT ![Len(queue)] = mainVALUE_SENT_FROM_TASK]
           /\ sendRet' = pdPASS
           /\ cstate' = st
           /\ lag' = IF AllBlocked(st) THEN 0 ELSE lag
    /\ cpc' = [cpc EXCEPT ![TmrSvc] = "wait"]
    /\ UNCHANGED << mainVars, qCapacity, timerVars, taskVars, now >>
    /\ UNCHANGED << searchVars, opLog, winVars >>

\* xQueueSend(xQueue, &ulValueToSend, 0U); the callback returns and the
\* timer service waits for the next expiry.
prvQueueSendTimerCallback ==
    /\ cstate[TmrSvc] = "Running"
    /\ cpc[TmrSvc] = "callback"
    /\ LET r == xQueueSend(queue, qCapacity, mainVALUE_SENT_FROM_TIMER)
           st == [cstate EXCEPT ![TmrSvc] =
                     IF tmrActive /\ nextExpiry <= now THEN "Running" ELSE "Blocked"]
       IN  /\ queue' = r.q
           /\ sendRet' = r.ret
           /\ cstate' = st
           /\ lag' = IF AllBlocked(st) THEN 0 ELSE lag
    /\ cpc' = [cpc EXCEPT ![TmrSvc] = "wait"]
    /\ UNCHANGED << mainVars, qCapacity, timerVars, taskVars, now >>
    /\ UNCHANGED << searchVars, opLog, winVars >>

(***************************************************************************)
(* Initial states and specifications.                                      *)
(***************************************************************************)
\* The state when ipsa_sched() is entered.
InitProgram ==
    /\ pc = "createQueue"
    /\ xQueue = NULL
    /\ xTimer = NULL
    /\ qCapacity = 0
    /\ queue = << >>
    /\ sendRet = "none"
    /\ tmrActive = FALSE
    /\ nextExpiry = 0
    /\ initialStart = 0
    /\ fires = 0
    /\ cstate = [c \in Contexts |-> "NotCreated"]
    /\ cpc = [c \in Contexts |-> "start"]
    /\ xNextWakeTime = [t \in Tasks |-> 0]
    /\ t0 = [t \in Tasks |-> 0]
    /\ cycles = [t \in Tasks |-> 0]
    /\ lastRelease = [t \in Tasks |-> -1]
    /\ now = 0
    /\ lag = 0

InitWindow ==
    /\ winStart = -1
    /\ winCount = [t \in Tasks |-> 0]

\* binarySearch's variables before Task4's call (line 276).
InitCall ==
    /\ size = elementsSize
    /\ arr = elements
    /\ target = targetElement
    /\ left = 0
    /\ right = 0
    /\ mid = 0
    /\ bsPc = "entry"
    /\ result = 0
    /\ retDefined = FALSE

Init == InitProgram /\ InitCall /\ InitWindow /\ opLog = << >>

Next ==
    \/ CreateQueue
    \/ CreateTimer
    \/ CreateTasks
    \/ StartScheduler
    \/ Tick
    \/ \E c \in Contexts : Dispatch(c)
    \/ \E t \in Tasks : TaskEntry(t)
    \/ \E t \in Tasks : TaskBody(t)
    \/ TimerExpire
    \/ prvQueueSendTimerCallback

Spec == Init /\ [][Next]_vars

(***************************************************************************)
(* The queue of line 151 used by arbitrary producers and consumers: sends  *)
(* of the two values of lines 116-117 and receives, all with block time 0. *)
(***************************************************************************)
QueueValues == {mainVALUE_SENT_FROM_TASK, mainVALUE_SENT_FROM_TIMER}

EnvSend(v) ==
    /\ xQueue # NULL
    /\ Len(opLog) < MaxOps
    /\ LET r == xQueueSend(queue, qCapacity, v)
       IN  /\ queue' = r.q
           /\ sendRet' = r.ret
           /\ opLog' = Append(opLog, [op |-> "send", v |-> v, ret |-> r.ret])
    /\ UNCHANGED << mainVars, qCapacity, timerVars, taskVars, ctxVars, clockVars >>
    /\ UNCHANGED << searchVars, winVars >>

EnvReceive ==
    /\ xQueue # NULL
    /\ Len(opLog) < MaxOps
    /\ LET r == xQueueReceive(queue)
       IN  /\ queue' = r.q
           /\ opLog' = Append(opLog, [op |-> "receive", v |-> r.v, ret |-> r.ret])
    /\ UNCHANGED << mainVars, qCapacity, sendRet, timerVars, taskVars, ctxVars, clockVars >>
    /\ UNCHANGED << searchVars, winVars >>

\* The state once xQueueCreate has succeeded (line 151).
InitQueue ==
    /\ pc = "createTimer"
    /\ xQueue = "Queue"
    /\ xTimer = NULL
    /\ qCapacity = mainQUEUE_LENGTH
    /\ queue = << >>
    /\ sendRet = "none"
    /\ tmrActive = FALSE
    /\ nextExpiry = 0
    /\ initialStart = 0
    /\ fires = 0
    /\ cstate = [c \in Contexts |-> "NotCreated"]
    /\ cpc = [c \in Contexts |-> "start"]
    /\ xNextWakeTime = [t \in Tasks |-> 0]
    /\ t0 = [t \in Tasks |-> 0]
    /\ cycles = [t \in Tasks |-> 0]
    /\ lastRelease = [t \in Tasks |-> -1]
    /\ now = 0
    /\ lag = 0
    /\ InitCall
    /\ InitWindow
    /\ opLog = << >>

NextQueue == (\E v \in QueueValues : EnvSend(v)) \/ EnvReceive

SpecQueue == InitQueue /\ [][NextQueue]_vars

(***************************************************************************)
(* The running system observed over a window of ticks: the window opens at *)
(* a tick below MaxWindowStart and each task's releases after that tick    *)
(* are counted.                                                            *)
(***************************************************************************)
\* The state once vTaskStartScheduler has started the scheduler with the
\* queue and the timer created (line 174).
InitRunning ==
    /\ pc = "scheduler"
    /\ xQueue = "Queue"
    /\ xTimer = "Timer"
    /\ qCapacity = mainQUEUE_LENGTH
    /\ queue = << >>
    /\ sendRet = "none"
    /\ tmrActive = TRUE
    /\ nextExpiry = xTimerPeriod
    /\ initialStart = xTimerPeriod
    /\ fires = 0
    /\ cstate = [c \in Contexts |-> IF c \in Tasks THEN "Ready" ELSE "Blocked"]
    /\ cpc = [c \in Contexts |-> IF c \in Tasks THEN "start" ELSE "wait"]
    /\ xNextWakeTime = [t \in Tasks |-> 0]
    /\ t0 = [t \in Tasks |-> 0]
    /\ cycles = [t \in Tasks |-> 0]
    /\ lastRelease = [t \in Tasks |-> -1]
    /\ now = 0
    /\ lag = 0
    /\ InitCall
    /\ opLog = << >>

InitObserved ==
    /\ InitRunning
    /\ winStart \in 0 .. (MaxWindowStart - 1)
    /\ winCount = [t \in Tasks |-> 0]

NextRunning ==
    \/ Tick
    \/ \E c \in Contexts : Dispatch(c)
    \/ \E t \in Tasks : TaskEntry(t)
    \/ \E t \in Tasks : TaskBody(t)
    \/ TimerExpire
    \/ prvQueueSendTimerCallback

SpecWindow == InitObserved /\ [][NextRunning]_vars

(***************************************************************************)
(* The running system without an end: the tick count and every absolute    *)
(* tick kept in the state are counted modulo the hyperperiod of the four   *)
(* tasks and the timer, and the processor and the tick interrupt are fair. *)
(***************************************************************************)
RECURSIVE GCD(_, _)
GCD(a, b) == IF b = 0 THEN a ELSE GCD(b, a % b)
LCM(a, b) == (a * b) \div GCD(a, b)

\* The number of ticks after which the releases and expiries repeat.
HyperPeriod ==
    LCM(LCM(LCM(TASK1_FREQUENCY, TASK2_FREQUENCY),
            LCM(TASK3_FREQUENCY, TASK4_FREQUENCY)), xTimerPeriod)

\* The first tick after now at which a delay or the timer's period ends.
NextDue ==
    CHOOSE n \in {xNextWakeTime[t] : t \in Tasks} \cup {nextExpiry} :
        /\ n > now
        /\ \A t \in Tasks : xNextWakeTime[t] > now => n <= xNextWakeTime[t]
        /\ nextExpiry > now => n <= nextExpiry

\* The tick interrupt of Tick.  The ticks of an idle processor up to the
\* next release change nothing but the tick count and are one step.  When
\* the tick count reaches two hyperperiods every tick in the state is moved
\* back by one hyperperiod, and the counters of delays and expiries by the
\* number made in one hyperperiod.
TickLive ==
    /\ pc = "scheduler"
    /\ AllBlocked(cstate) \/ lag < MaxLag
    /\ LET n == IF AllBlocked(cstate) THEN NextDue ELSE now + 1
           rel == Released(n)
           back == IF n >= 2 * HyperPeriod THEN HyperPeriod ELSE 0
       IN  /\ now' = n - back
           /\ cstate' = [c \in Contexts |->
                 IF c \in rel THEN "Ready"
                 ELSE IF /\ cstate[c] = "Running"
                         /\ \E h \in rel : uxPriority(h) > uxPriority(c)
                      THEN "Ready"
                      ELSE cstate[c]]
           /\ lastRelease' = [t \in Tasks |->
                 (IF t \in rel THEN n ELSE lastRelease[t]) - back]
           /\ xNextWakeTime' = [t \in Tasks |-> xNextWakeTime[t] - back]
           /\ cycles' = [t \in Tasks |-> cycles[t] - back \div xBlockTime(t)]
           /\ nextExpiry' = nextExpiry - back
           /\ fires' = fires - back \div xTimerPeriod
    /\ lag' = IF AllBlocked(cstate) THEN 0 ELSE lag + 1
    /\ UNCHANGED << mainVars, queueVars, tmrActive, initialStart, t0, cpc >>
    /\ UNCHANGED << searchVars, opLog, winVars >>

\* A step of the context that holds, or is given, the processor.
Execute ==
    \/ \E c \in Contexts : Dispatch(c)
    \/ \E t \in Tasks : TaskEntry(t)
    \/ \E t \in Tasks : TaskBody(t)
    \/ TimerExpire
    \/ prvQueueSendTimerCallback

InitLive == InitRunning /\ InitWindow

NextLive == TickLive \/ Execute

SpecLive ==
    InitLive /\ [][NextLive]_vars /\ WF_vars(TickLive) /\ WF_vars(Execute)

InitSearch ==
    /\ \/ /\ size \in 0 .. MaxLen
          /\ arr \in SortedArrays(size)
          /\ target \in -1 .. (MaxVal + 1)
       \/ /\ size = elementsSize
          /\ arr = elements
          /\ target = targetElement
    /\ left = 0
    /\ right = 0
    /\ mid = 0
    /\ bsPc = "entry"
    /\ result = 0
    /\ retDefined = FALSE
    /\ InitProgram
    /\ InitWindow
    /\ opLog = << >>

NextSearch == BsEnter \/ BsIter \/ BsFallOff

SpecSearch == InitSearch /\ [][NextSearch]_vars

(***************************************************************************)
(* The claims.                                                             *)
(***************************************************************************)
TargetPresent == \E i \in 0 .. (size - 1) : arr[i] = target

\* C1: for a sorted array that holds the target, binarySearch returns an
\* index i with arr[i] = target.  (Refuted by SpecSearch: line 248 returns 0
\* whatever the index found.)
C1_ReturnsIndexOfTarget ==
    (bsPc = "returned" /\ TargetPresent) =>
        /\ retDefined
        /\ result \in 0 .. (size - 1)
        /\ arr[result] = target

\* C2: for a sorted array that does not hold the target, binarySearch
\* returns a not-found indicator, a value it never returns for a target it
\* found, so none of the indices 0 .. 49.  (Refuted by SpecSearch: control
\* falls off the end of the function and no value is returned.)
C2_ReturnsNotFound ==
    (bsPc = "returned" /\ ~TargetPresent) =>
        /\ retDefined
        /\ result \notin 0 .. (elementsSize - 1)

\* The periods the claims state, in ticks.
ClaimedPeriod(t) ==
    CASE t = "Task1" -> 4000
      [] t = "Task2" -> 200
      [] t = "Task3" -> 3000
      [] t = "Task4" -> 800

C3_WindowCount ==
    \A t \in Tasks :
        LET W == now - winStart
            P == ClaimedPeriod(t)
        IN  (winStart >= 0 /\ now >= winStart) =>
                /\ winCount[t] >= (W \div P) - 1
                /\ winCount[t] <= (W \div P) + 1

C3_ExactPeriod ==
    \A t \in Tasks :
        (lastRelease[t] >= 0 /\ lastRelease'[t] # lastRelease[t]) =>
            lastRelease'[t] - lastRelease[t] = ClaimedPeriod(t)

\* C3: two consecutive releases of a task are exactly one period apart
\* (4000, 200, 3000, 800 ticks), and in a window of W ticks a task of
\* period P is released between W \div P - 1 and W \div P + 1 times.
C3_PeriodicActivation == []C3_WindowCount /\ [][C3_ExactPeriod]_vars

\* C3's case: Task1 has been released twice, the second time one period
\* after the first, inside a window in which Task2 was released 40 times.
C3_Witness ==
    /\ winStart >= 0
    /\ lastRelease["Task1"] >= 2 * 4000
    /\ winCount["Task1"] = 2
    /\ winCount["Task2"] >= 40
    /\ \E t \in Tasks : t0[t] > 0

\* C4: the queue never holds more than 4 elements (and never fewer than 0).
C4_CountBounded == Len(queue) >= 0 /\ Len(queue) <= 4

\* C4's case: the queue is full and a further expiry of the timer has
\* called the callback.
C4_Witness == Len(queue) = 4 /\ fires > 4 /\ cpc[TmrSvc] = "wait"

CallbackStep ==
    /\ cstate[TmrSvc] = "Running"
    /\ cpc[TmrSvc] = "callback"
    /\ cpc'[TmrSvc] = "wait"

C5_FullSendStep ==
    (CallbackStep /\ Len(queue) = 4) =>
        /\ sendRet' = errQUEUE_FULL
        /\ queue' = queue
        /\ now' = now

\* C5: the callback's xQueueSend with block time 0 on a queue holding 4
\* elements returns errQUEUE_FULL in the same tick and leaves the queue's
\* elements, their order and their number as they were.
C5_FullSendFails == [][C5_FullSendStep]_vars

\* C5's case: the fifth expiry's callback has sent to the full queue.
C5_Witness ==
    /\ fires = 5
    /\ cpc[TmrSvc] = "wait"
    /\ sendRet = errQUEUE_FULL
    /\ queue = << 200, 200, 200, 200 >>

OkSends == SelectSeq(opLog, LAMBDA e : e.op = "send" /\ e.ret = pdPASS)
OkReceives == SelectSeq(opLog, LAMBDA e : e.op = "receive" /\ e.ret = pdPASS)
ValuesOf(S) == [i \in 1 .. Len(S) |-> S[i].v]

\* C6: the values received so far, followed by the values still in the
\* queue, are the values successfully sent, in the order they were sent.
C6_Fifo == ValuesOf(OkSends) = ValuesOf(OkReceives) \o queue

\* C6's case: values of both producers were sent interleaved and three of
\* them have been received while others wait in the queue.
C6_Witness ==
    /\ Len(OkReceives) >= 3
    /\ ValuesOf(OkReceives)[1] # ValuesOf(OkReceives)[2]
    /\ Len(queue) >= 2
    /\ queue[1] # queue[2]

IsSend(i) == opLog[i].op = "send"
IsReceive(i) == opLog[i].op = "receive"
FiveSendsFirst == Len(opLog) >= 5 /\ \A i \in 1 .. 5 : IsSend(i)

\* C7: from the empty queue of 4 places, the first four sends succeed and a
\* fifth fails; the four receives that follow return the four values in
\* the order sent, and one more receive fails.
C7_Scenario ==
    /\ \A k \in 1 .. 4 :
          (Len(opLog) >= k /\ \A i \in 1 .. k : IsSend(i)) =>
              opLog[k].ret = pdPASS
    /\ FiveSendsFirst => opLog[5].ret = errQUEUE_FULL
    /\ \A k \in 6 .. 9 :
          (FiveSendsFirst /\ Len(opLog) >= k /\ \A i \in 6 .. k : IsReceive(i)) =>
              /\ opLog[k].ret = pdPASS
              /\ opLog[k].v = opLog[k - 5].v
    /\ (FiveSendsFirst /\ Len(opLog) >= 10 /\ \A i \in 6 .. 10 : IsReceive(i)) =>
          opLog[10].ret = errQUEUE_EMPTY

\* C7's case: the scenario run to its end with the value 100.
C7_Witness ==
    /\ Len(opLog) = 10
    /\ \A i \in 1 .. 5 : IsSend(i) /\ opLog[i].v = 100
    /\ \A i \in 6 .. 10 : IsReceive(i)
    /\ \A i \in 6 .. 9 : opLog[i].v = 100
    /\ queue = << >>

\* C8: after K expiries the timer's next expiry is its first expiry plus
\* K * 2000, also while the callback runs and however late it runs.
C8_TimerDriftFree == nextExpiry = initialStart + fires * 2000

\* C8's case: the callback of the third expiry runs one tick late, with the
\* next expiry already set.
C8_Witness ==
    /\ fires = 3
    /\ cstate[TmrSvc] = "Running"
    /\ cpc[TmrSvc] = "callback"
    /\ now = initialStart + 2 * 2000 + 1
    /\ nextExpiry = initialStart + 3 * 2000

QueueCreationFailed == pc # "createQueue" /\ xQueue = NULL

C9_FailClosedState ==
    QueueCreationFailed =>
        /\ pc = "idle"
        /\ xTimer = NULL
        /\ ~tmrActive
        /\ fires = 0
        /\ \A c \in Contexts : cstate[c] = "NotCreated"

\* C9: when xQueueCreate returns NULL no timer is created or started, no
\* task is created, the scheduler is not started, and ipsa_sched stays in
\* its for (;;) loop.
C9_QueueFailureFailsClosed ==
    []C9_FailClosedState /\ [][pc = "idle" => pc' = "idle"]_vars

\* C9's case: xQueueCreate has returned NULL.
C9_Witness == QueueCreationFailed /\ pc = "idle"

TimerCreationFailed ==
    /\ pc \notin {"createQueue", "createTimer"}
    /\ xQueue # NULL
    /\ xTimer = NULL

ClaimedPriority(t) ==
    CASE t = "Task1" -> 1
      [] t = "Task2" -> 2
      [] t = "Task3" -> 3
      [] t = "Task4" -> 4

\* C11: among the tasks due at the same tick the one of the highest
\* priority runs first: no task is Running while a task of higher priority
\* is Ready, and while a task is Ready every task of lower priority
\* released at the same tick is still Ready.
C11_PriorityOrder ==
    \A h \in Tasks : \A l \in Tasks :
        (pc = "scheduler" /\ ClaimedPriority(h) > ClaimedPriority(l)
            /\ cstate[h] = "Ready") =>
            /\ cstate[l] # "Running"
            /\ lastRelease[l] = lastRelease[h] => cstate[l] = "Ready"

\* C11's case: Task1, Task2 and Task4 were released at the same tick; Task4
\* runs its body while Task2 and Task1 wait.
C11_Witness ==
    /\ lastRelease["Task4"] > 0
    /\ lastRelease["Task2"] = lastRelease["Task4"]
    /\ lastRelease["Task1"] = lastRelease["Task4"]
    /\ cstate["Task4"] = "Running"
    /\ cpc["Task4"] = "body"
    /\ cstate["Task2"] = "Ready"
    /\ cstate["Task1"] = "Ready"

RunningContexts == {c \in Contexts : cstate[c] = "Running"}

\* C12: at most one of the five contexts is Running.
C12_OneRunning == Cardinality(RunningContexts) <= 1

\* C12's case: the timer service runs the callback while two tasks are Ready.
C12_Witness ==
    /\ RunningContexts = {TmrSvc}
    /\ cpc[TmrSvc] = "callback"
    /\ Cardinality({t \in Tasks : cstate[t] = "Ready"}) >= 2

C13_ServiceState ==
    /\ cpc[TmrSvc] \in {"start", "wait", "callback"}
    /\ cstate[TmrSvc] = "Blocked" => cpc[TmrSvc] = "wait"

C13_CallbackStep ==
    (cpc[TmrSvc] = "callback" /\ cpc'[TmrSvc] # "callback") =>
        /\ cpc'[TmrSvc] = "wait"
        /\ now' = now
        /\ sendRet' \in {pdPASS, errQUEUE_FULL}

\* C13: the timer service is never blocked inside the callback's send: when
\* it is Blocked it waits for the next expiry, and a call of the callback
\* returns in the tick in which it was made, with the queue full or not.
C13_CallbackNeverBlocks == []C13_ServiceState /\ [][C13_CallbackStep]_vars

\* C13's case: the callback has returned from a send to the full queue in
\* the tick of the expiry and the timer service waits for the next one.
C13_Witness ==
    /\ fires > 4
    /\ sendRet = errQUEUE_FULL
    /\ cstate[TmrSvc] = "Blocked"
    /\ now = nextExpiry - 2000

C14_WakeTimes ==
    \A t \in Tasks :
        /\ xNextWakeTime[t] = t0[t] + cycles[t] * ClaimedPeriod(t)
        /\ (cstate[t] = "Running" /\ cpc[t] = "body") =>
               now >= t0[t] + ClaimedPeriod(t)

\* C14: after k calls of vTaskDelayUntil a task's xNextWakeTime is the tick
\* count it first read plus k periods, it never decreases, and the body
\* does not run before the first period has passed.
C14_WakeTimeArithmetic ==
    []C14_WakeTimes /\ [][\A t \in Tasks : xNextWakeTime'[t] >= xNextWakeTime[t]]_vars

\* C14's case: a task that first ran at tick 1 runs its body a tick after
\* its third release.
C14_Witness ==
    \E t \in Tasks :
        /\ t0[t] = 1
        /\ cycles[t] = 3
        /\ cstate[t] = "Running"
        /\ cpc[t] = "body"
        /\ now = xNextWakeTime[t] + 1

\* C15: a task runs its body only when every expiry of the timer up to the
\* tick of the task's release has been processed and its callback has
\* returned.
C15_TimerBeforeTasks ==
    \A t \in Tasks :
        (cstate[t] = "Running" /\ cpc[t] = "body" /\ tmrActive) =>
            /\ nextExpiry > lastRelease[t]
            /\ cpc[TmrSvc] = "wait"
            /\ cstate[TmrSvc] = "Blocked"

\* C15's case: a task released at the tick of the timer's second expiry
\* runs its body in that tick, after the callback's send.
C15_Witness ==
    \E t \in Tasks :
        /\ cstate[t] = "Running"
        /\ cpc[t] = "body"
        /\ fires = 2
        /\ lastRelease[t] = nextExpiry - 2000
        /\ now = lastRelease[t]
        /\ Len(queue) = 2

Min(a, b) == IF a < b THEN a ELSE b

C18_QueueContents ==
    /\ \A i \in 1 .. Len(queue) : queue[i] = 200
    /\ cpc[TmrSvc] = "callback" => Len(queue) = Min(fires - 1, 4)
    /\ cpc[TmrSvc] # "callback" => Len(queue) = Min(fires, 4)
    /\ (cpc[TmrSvc] # "callback" /\ fires > 4) => sendRet = errQUEUE_FULL
    /\ (cpc[TmrSvc] # "callback" /\ fires \in 1 .. 4) => sendRet = pdPASS

C19_LoopBounds ==
    bsPc = "loop" =>
        /\ 0 <= left
        /\ right <= size - 1
        /\ left <= right + 1
        /\ size = 0 => left > right

C19_Step ==
    /\ size = 0 => mid' = mid
    /\ left <= right =>
          /\ left <= mid'
          /\ mid' <= right
          /\ 0 <= mid'
          /\ mid' <= size - 1
          /\ bsPc' = "loop" => right' - left' < right - left

\* C19: in every iteration the index read lies in left .. right inside
\* 0 .. size - 1, and right - left decreases unless the function returns,
\* so the loop ends; with size = 0 the loop body is not entered.
C19_LoopTerminates == []C19_LoopBounds /\ [][bsPc = "loop" => C19_Step]_vars

\* C19's case: Task4's call after five iterations, with left = right = 4.
C19_Witness ==
    /\ size = 50
    /\ bsPc = "loop"
    /\ mid = 3
    /\ left = 4
    /\ right = 4

\* C16: every value the callback sends is received: again and again an
\* element is taken off the queue.  (Refuted by SpecLive: no task receives,
\* and from the fourth expiry on the queue holds four elements for ever.)
C16_SentIsReceived == []<><<Len(queue') < Len(queue)>>_vars

C17_Lifecycle ==
    \A t \in Tasks :
        /\ cstate[t] = "Blocked" => cstate'[t] \in {"Blocked", "Ready"}
        /\ cstate[t] = "Ready" => cstate'[t] \in {"Ready", "Running"}
        /\ cstate[t] = "Running" => cstate'[t] \in {"Running", "Blocked"}
        /\ cstate'[t] # "NotCreated"

\* C17: with the scheduler started and ticks and the processor fair, every
\* task goes from Blocked to Ready to Running to Blocked again and again, is
\* never destroyed, and Task1 as every other task runs its body infinitely
\* often.
C17_TasksCycleForever ==
    /\ [][C17_Lifecycle]_vars
    /\ \A t \in Tasks :
          /\ []<>(cstate[t] = "Blocked")
          /\ []<>(cstate[t] = "Ready")
          /\ []<>(cstate[t] = "Running" /\ cpc[t] = "body")

\* C17's case: Task1 runs its body in the second hyperperiod, after the
\* timer service and the three tasks of higher priority ran in the same tick.
C17_Witness ==
    /\ now >= HyperPeriod
    /\ cstate["Task1"] = "Running"
    /\ cpc["Task1"] = "body"
    /\ \A t \in Tasks : lastRelease[t] = lastRelease["Task1"]
    /\ nextExpiry = lastRelease["Task1"] + 2000

====
